---------------------------- MODULE Spec2Model ----------------------------
(***************************************************************************)
(* The VD data ETL pipeline of src/main.py (and its near-identical twin    *)
(* src/vd_pipeline_refactored.py): download_day, decompress_day,           *)
(* xml_to_csv, split_by_vdid, cleanup, zip_day, process_day and batch.     *)
(*                                                                         *)
(* A day's directory is modelled by the files of its sub-directories       *)
(* compressed/, decompressed/ and csv/, one per resource.  The workers of  *)
(* the two executors are modelled one task per resource; the main thread   *)
(* is modelled by pc.                                                      *)
(***************************************************************************)
EXTENDS Naturals, Integers, Sequences, FiniteSets, TLC

\* Bounds of the model.
NumRes == 2       \* resources of a day (the code enumerates 24 * 60 of them)
MaxDays == 2      \* largest --days value
MaxRuns == 2      \* invocations of download_day on one directory (SpecDL)

\* Program constants.
MIN_FILE_SIZE == 1024
MAX_DL_WORKERS == 8
MAX_PARSE_WORKERS == 16

VARIABLES
  pc,         \* position of the main thread
  raisedIn,   \* the function whose exception ended the program, or "none"
  days,       \* batch: the days argument
  start_date, \* batch: the start_date argument, as its eight digits
  dt,         \* batch: the loop's datetime, as its proleptic ordinal
  iter,       \* batch: iterations of the loop begun
  invoked,    \* the date texts process_day was called with, in order
  opts,       \* keep_gz, keep_xml, keep_csv, zip_and_delete
  comp,       \* compressed/: resource -> file
  dl,         \* the futures of download_day: resource -> task
  run,        \* invocations of download_day on this directory so far
  fetched,    \* resources sess.get was called for in this invocation
  atStart,    \* compressed/ as it was when this invocation began
  prevRes,    \* what _download_one returned in the previous invocation
  gzTodo,     \* decompress_day: the entries of gz_files not yet visited
  xml,        \* decompressed/: resource -> "absent" | "whole" | "partial"
  xmlAtStart, \* decompressed/ as it was when decompress_day began
  dec,        \* decompress_day: what the loop did with each artifact
  parse,      \* the futures of xml_to_csv: resource -> task state
  csv,        \* csv/: resource -> "absent" | "rows" | "empty"
  combined,   \* split_by_vdid: the tables concatenated into combined
  vdidOut,    \* VDID/: resources whose rows reached a partition file
  zipped,     \* whether <day>.zip was written for the current day
  stages,     \* the stages of process_day begun for the current day
  ppc,        \* _parse_xml_lxml: "idle" | "iter" | "done" | "raised"
  doc,        \* _parse_xml_lxml: the elements of the document read so far
  data,       \* _parse_xml_lxml: data
  cur,        \* _parse_xml_lxml: the snapshot and the lane being visited
  rows,       \* _parse_xml_lxml: the rows of the DataFrame returned
  tph,        \* download_day's tasks: "idle" | "enumerate" | "submitted"
  th,         \* download_day's tasks: h of the comprehension
  tm,         \* download_day's tasks: m of the comprehension
  writing,    \* the tasks, as <<h, m>>, whose destination a worker writes
  spc,        \* csv/ and split_by_vdid: "idle" | "csv" | "combined"
              \* | "split" | "raised"
  tables,     \* csv/: the files df.to_csv wrote, as name, header and lines
  combinedT,  \* split_by_vdid: combined
  parts       \* VDID/: file name -> the table written under it

vars == <<pc, raisedIn, days, start_date, dt, iter, invoked, opts, comp, dl, run, fetched,
          atStart, prevRes, gzTodo, xml, xmlAtStart, dec, parse, csv,
          combined, vdidOut, zipped, stages, ppc, doc, data, cur, rows,
          tph, th, tm, writing, spc, tables, combinedT, parts>>

batchVars == <<days, start_date, dt, iter, invoked, opts>>
dlVars == <<comp, dl, run, fetched, atStart, prevRes>>
lateVars == <<gzTodo, xml, parse, csv, combined, vdidOut, zipped>>
decVars == <<xmlAtStart, dec>>
taskVars == <<tph, th, tm, writing>>
tableVars == <<spc, tables, combinedT, parts>>
sideVars == <<taskVars, tableVars>>
parseVars == <<ppc, doc, data, cur, rows>>
pipeVars == <<pc, raisedIn, days, start_date, dt, iter, invoked, opts, comp, dl, run,
              fetched, atStart, prevRes, gzTodo, xml, xmlAtStart, dec, parse,
              csv, combined, vdidOut, zipped, stages>>

\* The tasks list of download_day: one destination per resource.
Res == 1..NumRes

\* File sizes a retrieval can leave on disk: both sides of the threshold.
Sizes == {MIN_FILE_SIZE - 1, MIN_FILE_SIZE}

NoFile == [ex |-> FALSE, size |-> 0]
File(s) == [ex |-> TRUE, size |-> s]

\* Mutants of Exists: the skip is lost; an existing file is validated again.
ExistsNever(f) == FALSE
ExistsAndValid(f) == f.ex /\ f.size >= MIN_FILE_SIZE

\* dest.exists()
Exists(f) == f.ex

\* Mutant of Undersized: the size check is lost.
UndersizedNever(f) == FALSE

\* dest.stat().st_size < MIN_FILE_SIZE
Undersized(f) == f.size < MIN_FILE_SIZE

\* A future of download_day.
\*   st:  "queued" | "written" (the body is on disk, the worker still runs)
\*        | "done" | "collected" (fut.result() was called)
\*   res: what _download_one returned: "none" yet | "true" | "false"
\*        | "exc" (it raised)
\*   out: "skip" | "error" | "short" | "ok"
\*   exc: whether the retrieval raised while the body was streamed
Task(st, res, out, exc) == [st |-> st, res |-> res, out |-> out, exc |-> exc]
Queued == Task("queued", "none", "none", FALSE)

DlRunning == {r \in Res : dl[r].st = "written"}
DlFinished == \A r \in Res : dl[r].st \in {"done", "collected"}

(***************************************************************************)
(* 1. Download                                                             *)
(***************************************************************************)

\* download_day up to the submission of its 1440 tasks.
DownloadDaySubmit(n) ==
  /\ dl' = [r \in Res |-> Queued]
  /\ fetched' = {}
  /\ atStart' = comp
  /\ prevRes' = [r \in Res |-> dl[r].res]
  /\ run' = n
  /\ comp' = comp

\* Mutant of GetRaised: no try/except around the retrieval.
GetRaisedUncaught(r) ==
  /\ comp' = comp
  /\ dl' = [dl EXCEPT ![r] = Task("done", "exc", "error", FALSE)]

\* _download_one when the retrieval raises before dest is opened: the except
\* branch unlinks dest (missing_ok) and returns False.
GetRaised(r) ==
  /\ comp' = [comp EXCEPT ![r] = NoFile]
  /\ dl' = [dl EXCEPT ![r] = Task("done", "false", "error", FALSE)]

\* _download_one from its first line to the moment the body is on disk (or
\* the retrieval has raised before dest was opened).
DownloadOneBegin(r) ==
  /\ pc \in {"download", "dl_unwind"}
  /\ dl[r].st = "queued"
  /\ Cardinality(DlRunning) < MAX_DL_WORKERS
  /\ IF Exists(comp[r])
       THEN /\ dl' = [dl EXCEPT ![r] = Task("done", "true", "skip", FALSE)]
            /\ UNCHANGED <<comp, fetched>>
       ELSE /\ fetched' = fetched \cup {r}
            /\ \/ GetRaised(r)
               \/ \E s \in Sizes, e \in BOOLEAN :
                    /\ comp' = [comp EXCEPT ![r] = File(s)]
                    /\ dl' = [dl EXCEPT ![r] = Task("written", "none", "none", e)]
  /\ UNCHANGED <<pc, raisedIn, run, atStart, prevRes, stages>>
  /\ UNCHANGED batchVars
  /\ UNCHANGED parseVars
  /\ UNCHANGED sideVars
  /\ UNCHANGED decVars
  /\ UNCHANGED lateVars

\* The rest of _download_one: the except branch of a retrieval that raised
\* while streaming, or the size check.
DownloadOneEnd(r) ==
  /\ pc \in {"download", "dl_unwind"}
  /\ dl[r].st = "written"
  /\ IF dl[r].exc
       THEN /\ comp' = [comp EXCEPT ![r] = NoFile]
            /\ dl' = [dl EXCEPT ![r] = Task("done", "false", "error", FALSE)]
       ELSE IF Undersized(comp[r])
         THEN /\ comp' = [comp EXCEPT ![r] = NoFile]
              /\ dl' = [dl EXCEPT ![r] = Task("done", "false", "short", FALSE)]
         ELSE /\ comp' = comp
              /\ dl' = [dl EXCEPT ![r] = Task("done", "true", "ok", FALSE)]
  /\ UNCHANGED <<pc, raisedIn, run, fetched, atStart, prevRes, stages>>
  /\ UNCHANGED batchVars
  /\ UNCHANGED parseVars
  /\ UNCHANGED sideVars
  /\ UNCHANGED decVars
  /\ UNCHANGED lateVars

\* One turn of "for fut in as_completed(futs): fut.result()": a result that
\* is an exception is raised again in the main thread, which then leaves
\* the with block.
DownloadDayCollect(r) ==
  /\ pc = "download"
  /\ dl[r].st = "done"
  /\ dl' = [dl EXCEPT ![r].st = "collected"]
  /\ pc' = IF dl[r].res = "exc" THEN "dl_unwind" ELSE pc
  /\ UNCHANGED <<raisedIn, comp, run, fetched, atStart, prevRes, stages>>
  /\ UNCHANGED batchVars
  /\ UNCHANGED parseVars
  /\ UNCHANGED sideVars
  /\ UNCHANGED decVars
  /\ UNCHANGED lateVars

\* Mutant of DownloadDayCanLeave: download_day does not wait for its tasks.
DownloadDayCanLeaveEarly == pc \in {"download", "dl_unwind"}

\* Whether the with block of download_day can be left: the loop is over (or
\* was left by an exception) and the executor's shutdown(wait=True) is over.
DownloadDayCanLeave ==
  IF pc = "dl_unwind"
    THEN DlFinished
    ELSE pc = "download" /\ \A r \in Res : dl[r].st = "collected"

\* download_day leaves its with block and returns (or raises).
DownloadDayReturn ==
  /\ DownloadDayCanLeave
  /\ pc' = IF pc = "dl_unwind" THEN "raised" ELSE "downloaded"
  /\ raisedIn' = IF pc = "dl_unwind" THEN "download_day" ELSE raisedIn
  /\ UNCHANGED <<stages>>
  /\ UNCHANGED dlVars
  /\ UNCHANGED batchVars
  /\ UNCHANGED parseVars
  /\ UNCHANGED sideVars
  /\ UNCHANGED decVars
  /\ UNCHANGED lateVars

\* A program run that only calls download_day for one date, again and again,
\* on a directory with any contents.
DownloadDayInvoke ==
  /\ pc \in {"start", "downloaded"}
  /\ run < MaxRuns
  /\ DownloadDaySubmit(run + 1)
  /\ pc' = "download"
  /\ UNCHANGED <<raisedIn, stages>>
  /\ UNCHANGED batchVars
  /\ UNCHANGED parseVars
  /\ UNCHANGED sideVars
  /\ UNCHANGED decVars
  /\ UNCHANGED lateVars

(***************************************************************************)
(* 2. Decompress                                                           *)
(***************************************************************************)

\* decompress_day up to its loop: gz_files = list(src.glob("*.xml.gz")).
DecompressDayBegin ==
  /\ pc = "downloaded"
  /\ gzTodo' = {r \in Res : comp[r].ex}
  /\ xmlAtStart' = xml
  /\ dec' = [r \in Res |-> "none"]
  /\ stages' = Append(stages, "decompress")
  /\ pc' = "decompress"
  /\ UNCHANGED <<raisedIn, xml, parse, csv, combined, vdidOut, zipped>>
  /\ UNCHANGED dlVars
  /\ UNCHANGED batchVars
  /\ UNCHANGED parseVars
  /\ UNCHANGED sideVars

\* What one turn of the loop leaves at out when out did not exist: the whole
\* document; or, the copy having raised, what had been written of it (the
\* file is opened before the first byte is read); or nothing, gzip.open
\* itself having raised.  The except branch only logs.
DecompressOutcomes == {"whole", "partial", "absent"}

\* Mutant of DecompressExcept: the exception leaves decompress_day.
DecompressExceptUncaught(r) ==
  /\ dec' = [dec EXCEPT ![r] = "error"]
  /\ pc' = "raised"
  /\ raisedIn' = "decompress_day"

\* except Exception as exc: logging.warning(...); the loop goes on.
DecompressExcept(r) ==
  /\ dec' = [dec EXCEPT ![r] = "error"]
  /\ pc' = pc
  /\ raisedIn' = raisedIn

\* One turn of the loop of decompress_day.
DecompressOne(r) ==
  /\ pc = "decompress"
  /\ r \in gzTodo
  /\ gzTodo' = gzTodo \ {r}
  /\ IF xml[r] # "absent"
       THEN /\ xml' = xml
            /\ dec' = [dec EXCEPT ![r] = "skipped"]
            /\ UNCHANGED <<pc, raisedIn>>
       ELSE \E o \in DecompressOutcomes :
              /\ xml' = [xml EXCEPT ![r] = o]
              /\ IF o = "whole"
                   THEN /\ dec' = [dec EXCEPT ![r] = "ok"]
                        /\ UNCHANGED <<pc, raisedIn>>
                   ELSE DecompressExcept(r)
  /\ UNCHANGED <<xmlAtStart, parse, csv, combined, vdidOut, zipped, stages>>
  /\ UNCHANGED dlVars
  /\ UNCHANGED batchVars
  /\ UNCHANGED parseVars
  /\ UNCHANGED sideVars

\* decompress_day returns.
DecompressDayReturn ==
  /\ pc = "decompress"
  /\ gzTodo = {}
  /\ pc' = "decompressed"
  /\ UNCHANGED <<raisedIn, stages>>
  /\ UNCHANGED dlVars
  /\ UNCHANGED batchVars
  /\ UNCHANGED parseVars
  /\ UNCHANGED sideVars
  /\ UNCHANGED decVars
  /\ UNCHANGED lateVars

(***************************************************************************)
(* 3. XML -> CSV                                                           *)
(***************************************************************************)

\* A future of xml_to_csv: "none" (no document) | "queued" | "running"
\* | "rows" (the parse returned a table with rows) | "empty" (it returned a
\* table without rows) | "exc" (it raised) | "collected".
ParseRunning == {r \in Res : parse[r] = "running"}
ParseFinished == \A r \in Res : parse[r] \notin {"queued", "running"}

\* xml_to_csv up to the submission of one parse per document.
XmlToCsvBegin ==
  /\ pc = "decompressed"
  /\ parse' = [r \in Res |-> IF xml[r] # "absent" THEN "queued" ELSE "none"]
  /\ stages' = Append(stages, "xml")
  /\ pc' = "xml"
  /\ UNCHANGED <<raisedIn, gzTodo, xml, csv, combined, vdidOut, zipped>>
  /\ UNCHANGED dlVars
  /\ UNCHANGED batchVars
  /\ UNCHANGED parseVars
  /\ UNCHANGED sideVars
  /\ UNCHANGED decVars

\* A worker of the pool takes a parse.
ParseTaskBegin(r) ==
  /\ pc \in {"xml", "xml_unwind"}
  /\ parse[r] = "queued"
  /\ Cardinality(ParseRunning) < MAX_PARSE_WORKERS
  /\ parse' = [parse EXCEPT ![r] = "running"]
  /\ UNCHANGED <<pc, raisedIn, gzTodo, xml, csv, combined, vdidOut, zipped, stages>>
  /\ UNCHANGED dlVars
  /\ UNCHANGED batchVars
  /\ UNCHANGED parseVars
  /\ UNCHANGED sideVars
  /\ UNCHANGED decVars

\* What _parse_xml_lxml does with a document: it returns a table with rows,
\* or one without rows (no snapshot with a device identifier), or the
\* parser raises.
ParseOutcomes == {"rows", "empty", "exc"}

\* _parse_xml_lxml ends.
ParseTaskEnd(r) ==
  /\ pc \in {"xml", "xml_unwind"}
  /\ parse[r] = "running"
  /\ \E o \in ParseOutcomes : parse' = [parse EXCEPT ![r] = o]
  /\ UNCHANGED <<pc, raisedIn, gzTodo, xml, csv, combined, vdidOut, zipped, stages>>
  /\ UNCHANGED dlVars
  /\ UNCHANGED batchVars
  /\ UNCHANGED parseVars
  /\ UNCHANGED sideVars
  /\ UNCHANGED decVars

\* One turn of "for fut in as_completed(fut_to_name)": fut.result() raises
\* the parse's exception again, and then the main thread leaves the with
\* block; otherwise the table is written to csv/.
XmlToCsvCollect(r) ==
  /\ pc = "xml"
  /\ parse[r] \in ParseOutcomes
  /\ parse' = [parse EXCEPT ![r] = "collected"]
  /\ IF parse[r] = "exc"
       THEN pc' = "xml_unwind" /\ csv' = csv
       ELSE pc' = pc /\ csv' = [csv EXCEPT ![r] = parse[r]]
  /\ UNCHANGED <<raisedIn, gzTodo, xml, combined, vdidOut, zipped, stages>>
  /\ UNCHANGED dlVars
  /\ UNCHANGED batchVars
  /\ UNCHANGED parseVars
  /\ UNCHANGED sideVars
  /\ UNCHANGED decVars

\* Whether the with block of xml_to_csv can be left: the loop is over (or
\* was left by an exception) and the executor's shutdown(wait=True) is over.
XmlToCsvCanLeave ==
  IF pc = "xml_unwind"
    THEN ParseFinished
    ELSE pc = "xml" /\ \A r \in Res : parse[r] \in {"none", "collected"}

\* xml_to_csv leaves its with block and returns (or raises).
XmlToCsvReturn ==
  /\ XmlToCsvCanLeave
  /\ pc' = IF pc = "xml_unwind" THEN "raised" ELSE "csv_done"
  /\ raisedIn' = IF pc = "xml_unwind" THEN "xml_to_csv" ELSE raisedIn
  /\ UNCHANGED <<stages>>
  /\ UNCHANGED dlVars
  /\ UNCHANGED batchVars
  /\ UNCHANGED parseVars
  /\ UNCHANGED sideVars
  /\ UNCHANGED decVars
  /\ UNCHANGED lateVars

(***************************************************************************)
(* 4. Split by VDID                                                        *)
(***************************************************************************)

\* csv_dir.glob("*.csv")
Tables == {r \in Res : csv[r] # "absent"}

\* Whether split_by_vdid raises: pd.concat of no table, or pd.read_csv of a
\* table written from a DataFrame without rows and columns.
SplitRaises == Tables = {} \/ \E r \in Tables : csv[r] = "empty"

\* split_by_vdid.
SplitByVdid ==
  /\ pc = "csv_done"
  /\ stages' = Append(stages, "split")
  /\ IF SplitRaises
       THEN /\ pc' = "raised"
            /\ raisedIn' = "split_by_vdid"
            /\ UNCHANGED <<combined, vdidOut>>
       ELSE /\ pc' = "split_done"
            /\ raisedIn' = raisedIn
            /\ combined' = Tables
            /\ vdidOut' = Tables
  /\ UNCHANGED <<gzTodo, xml, parse, csv, zipped>>
  /\ UNCHANGED dlVars
  /\ UNCHANGED batchVars
  /\ UNCHANGED parseVars
  /\ UNCHANGED sideVars
  /\ UNCHANGED decVars

(***************************************************************************)
(* 5. Cleanup and zip                                                      *)
(***************************************************************************)

\* cleanup: shutil.rmtree of the directories not kept.
Cleanup ==
  /\ pc = "split_done"
  /\ stages' = Append(stages, "cleanup")
  /\ comp' = IF opts.keep_gz THEN comp ELSE [r \in Res |-> NoFile]
  /\ xml' = IF opts.keep_xml THEN xml ELSE [r \in Res |-> "absent"]
  /\ csv' = IF opts.keep_csv THEN csv ELSE [r \in Res |-> "absent"]
  /\ pc' = IF opts.zip_and_delete THEN "zip" ELSE "day_end"
  /\ UNCHANGED <<raisedIn, dl, run, fetched, atStart, prevRes, gzTodo, parse,
                 combined, vdidOut, zipped>>
  /\ UNCHANGED batchVars
  /\ UNCHANGED parseVars
  /\ UNCHANGED sideVars
  /\ UNCHANGED decVars

\* zip_day(day_folder, delete_after=True).
ZipDay ==
  /\ pc = "zip"
  /\ stages' = Append(stages, "zip")
  /\ zipped' = TRUE
  /\ comp' = [r \in Res |-> NoFile]
  /\ xml' = [r \in Res |-> "absent"]
  /\ csv' = [r \in Res |-> "absent"]
  /\ vdidOut' = {}
  /\ pc' = "day_end"
  /\ UNCHANGED <<raisedIn, dl, run, fetched, atStart, prevRes, gzTodo, parse,
                 combined>>
  /\ UNCHANGED batchVars
  /\ UNCHANGED parseVars
  /\ UNCHANGED sideVars
  /\ UNCHANGED decVars

(***************************************************************************)
(* 6. Orchestration                                                        *)
(***************************************************************************)

\* The --date values the program is started with: valid dates, the day
\* before which is in another month, of a leap year, or in another year.
StartDates == {<<2, 0, 2, 4, 0, 3, 0, 1>>, <<2, 0, 2, 4, 0, 1, 0, 1>>}

\* datetime's calendar (proleptic Gregorian, January 1 of year 1 is day 1).
IsLeap(y) == y % 4 = 0 /\ (y % 100 # 0 \/ y % 400 = 0)
DAYS_IN_MONTH == <<31, 28, 31, 30, 31, 30, 31, 31, 30, 31, 30, 31>>
DAYS_BEFORE_MONTH == <<0, 31, 59, 90, 120, 151, 181, 212, 243, 273, 304, 334>>
DaysBeforeYear(y) ==
  (y - 1) * 365 + (y - 1) \div 4 - (y - 1) \div 100 + (y - 1) \div 400
DaysBeforeMonth(y, m) ==
  DAYS_BEFORE_MONTH[m] + (IF m > 2 /\ IsLeap(y) THEN 1 ELSE 0)
Ymd2Ord(y, m, d) == DaysBeforeYear(y) + DaysBeforeMonth(y, m) + d

\* The year, month and day of an ordinal, by the cycles of 400, 100 and 4
\* years and the estimate (n + 50) >> 5 of the month.
Ord2Ymd(ord) ==
  LET n0 == ord - 1
      n400 == n0 \div 146097
      r400 == n0 % 146097
      n100 == r400 \div 36524
      r100 == r400 % 36524
      n4 == r100 \div 1461
      r4 == r100 % 1461
      n1 == r4 \div 365
      n == r4 % 365
      year == n400 * 400 + 1 + n100 * 100 + n4 * 4 + n1
      leap == n1 = 3 /\ (n4 # 24 \/ n100 = 3)
      month == (n + 50) \div 32
      preceding == DAYS_BEFORE_MONTH[month]
                     + (IF month > 2 /\ leap THEN 1 ELSE 0)
      before == preceding - DAYS_IN_MONTH[month - 1]
                  - (IF month - 1 = 2 /\ leap THEN 1 ELSE 0)
  IN IF n1 = 4 \/ n100 = 4
       THEN [y |-> year - 1, m |-> 12, d |-> 31]
       ELSE IF preceding > n
              THEN [y |-> year, m |-> month - 1, d |-> n - before + 1]
              ELSE [y |-> year, m |-> month, d |-> n - preceding + 1]

\* datetime.strptime(start_date, "%Y%m%d"), for the text of a valid date.
Strptime(s) ==
  Ymd2Ord(s[1] * 1000 + s[2] * 100 + s[3] * 10 + s[4],
          s[5] * 10 + s[6], s[7] * 10 + s[8])

\* dt.strftime("%Y%m%d")
Strftime(ord) ==
  LET t == Ord2Ymd(ord)
  IN <<t.y \div 1000, (t.y \div 100) % 10, (t.y \div 10) % 10, t.y % 10,
       t.m \div 10, t.m % 10, t.d \div 10, t.d % 10>>

\* Mutant of MinusOneDay: the loop steps back twice.
MinusTwoDays(t) == t - 2

\* dt -= timedelta(days=1)
MinusOneDay(t) == t - 1

\* One turn of the loop of batch, up to the submission of the downloads:
\* process_day(dt) is called and calls download_day on the day's own
\* directory.
BatchCallProcessDay ==
  /\ pc = "batch"
  /\ iter < days
  /\ iter' = iter + 1
  /\ invoked' = Append(invoked, Strftime(dt))
  /\ stages' = <<"download">>
  /\ pc' = "download"
  /\ dl' = [r \in Res |-> Queued]
  /\ fetched' = {}
  /\ comp' = [r \in Res |-> NoFile]
  /\ atStart' = [r \in Res |-> NoFile]
  /\ prevRes' = [r \in Res |-> "none"]
  /\ run' = 1
  /\ gzTodo' = {}
  /\ xml' = [r \in Res |-> "absent"]
  /\ xmlAtStart' = [r \in Res |-> "absent"]
  /\ dec' = [r \in Res |-> "none"]
  /\ parse' = [r \in Res |-> "none"]
  /\ csv' = [r \in Res |-> "absent"]
  /\ combined' = {}
  /\ vdidOut' = {}
  /\ zipped' = FALSE
  /\ UNCHANGED <<raisedIn, days, start_date, dt, opts>>
  /\ UNCHANGED parseVars
  /\ UNCHANGED sideVars

\* process_day returns and the loop of batch steps to the day before.
BatchStep ==
  /\ pc = "day_end"
  /\ dt' = MinusOneDay(dt)
  /\ pc' = "batch"
  /\ UNCHANGED <<raisedIn, days, start_date, iter, invoked, opts, stages>>
  /\ UNCHANGED dlVars
  /\ UNCHANGED lateVars
  /\ UNCHANGED parseVars
  /\ UNCHANGED sideVars
  /\ UNCHANGED decVars

\* The loop of batch is over.
BatchReturn ==
  /\ pc = "batch"
  /\ iter = days
  /\ pc' = "done"
  /\ UNCHANGED <<raisedIn, days, start_date, dt, iter, invoked, opts,
                 stages>>
  /\ UNCHANGED dlVars
  /\ UNCHANGED lateVars
  /\ UNCHANGED parseVars
  /\ UNCHANGED sideVars
  /\ UNCHANGED decVars

(***************************************************************************)
(* _parse_xml_lxml                                                         *)
(*                                                                         *)
(* A document is read as the sequence of its VDLive, Lane and Vehicle      *)
(* elements in document order.  A child element that carries text is       *)
(* <<text>>, with "" for a child without text, and <<>> is a child that    *)
(* is not there.  A dict is its keys in insertion order and its mapping.   *)
(***************************************************************************)

\* Bound of the parser's model: elements of one document.
MaxNodes == 4

VdidChildren == {<<>>, <<"">>, <<"A">>, <<"B">>}
VDLiveElems == {[tag |-> "VDLive", VDID |-> v] : v \in VdidChildren}
\* The lanes of a device are identified by their numbers.
LaneElems ==
  {[tag |-> "Lane", LaneID |-> i, Speed |-> s, Occupancy |-> o] :
     i \in {<<"1">>, <<"2">>}, s \in {<<>>, <<"60">>}, o \in {<<>>, <<"5">>}}
VehicleElems ==
  {[tag |-> "Vehicle", VehicleType |-> t, Volume |-> v, Speed |-> <<"50">>] :
     t \in {<<>>, <<"S">>, <<"L">>}, v \in {<<"3">>, <<"4">>}}

EmptyDict == [keys |-> <<>>, map |-> <<>>]
DHas(d, k) == k \in DOMAIN d.map
\* d[k] = v
DSet(d, k, v) ==
  [keys |-> IF DHas(d, k) THEN d.keys ELSE Append(d.keys, k),
   map |-> (k :> v) @@ d.map]
\* Mutant of DSetDefault: an entry that is there is replaced.
DSetDefaultReplaces(d, k, v) == DSet(d, k, v)

\* d.setdefault(k, v)
DSetDefault(d, k, v) == IF DHas(d, k) THEN d ELSE DSet(d, k, v)

\* findtext(child, default=...); the text of a child without text reads "".
FindText(child, default) == IF child = <<>> THEN default ELSE child[1]

\* Mutant of Blank: a snapshot without device identifier is not skipped.
BlankNever(vdid) == FALSE

\* not vdid
Blank(vdid) == vdid = ""

NoCursor == [skip |-> TRUE, vdid |-> "", lane |-> "", depth |-> 0]

\* The body of the loop over the snapshots, up to the loop over its lanes.
IterVDLive(e) ==
  /\ ppc = "iter"
  /\ Len(doc) < MaxNodes
  /\ doc' = Append(doc, e)
  /\ LET vdid == FindText(e.VDID, "") IN
       IF Blank(vdid)
         THEN /\ data' = data
              /\ cur' = [skip |-> TRUE, vdid |-> "", lane |-> "", depth |-> 1]
         ELSE /\ data' = DSetDefault(data, vdid, EmptyDict)
              /\ cur' = [skip |-> FALSE, vdid |-> vdid, lane |-> "", depth |-> 1]
  /\ UNCHANGED <<ppc, rows>>
  /\ UNCHANGED pipeVars
  /\ UNCHANGED sideVars

\* The body of the loop over the lanes of a snapshot, up to the loop over
\* its vehicles.  The lanes of a skipped snapshot are not visited.
IterLane(l) ==
  /\ ppc = "iter"
  /\ Len(doc) < MaxNodes
  /\ cur.depth >= 1
  /\ doc' = Append(doc, l)
  /\ IF cur.skip
       THEN /\ data' = data
            /\ cur' = [cur EXCEPT !.depth = 2]
       ELSE LET lanes == data.map[cur.vdid]
                key == "L" \o FindText(l.LaneID, "")
                lanes1 == DSetDefault(lanes, key, EmptyDict)
                rec1 == DSet(lanes1.map[key], "Speed", FindText(l.Speed, ""))
                rec2 == DSet(rec1, "Occupancy", FindText(l.Occupancy, ""))
            IN /\ data' = DSet(data, cur.vdid, DSet(lanes1, key, rec2))
               /\ cur' = [cur EXCEPT !.lane = key, !.depth = 2]
  /\ UNCHANGED <<ppc, rows>>
  /\ UNCHANGED pipeVars
  /\ UNCHANGED sideVars

\* Mutants of VolumeKey and of ColumnName: the classification, the lane,
\* is not part of the name.
VolumeKeyUnclassified(vt) == "Volume"
ColumnNameWithoutLane(lane_id, k) == k

\* f"{vt}_Volume" and f"{vt}_Vehicle_Speed"
VolumeKey(vt) == vt \o "_Volume"
VehicleSpeedKey(vt) == vt \o "_Vehicle_Speed"

\* f"{lane_id}_{k}"
ColumnName(lane_id, k) == lane_id \o "_" \o k

\* The body of the loop over the vehicles of a lane.
IterVehicle(v) ==
  /\ ppc = "iter"
  /\ Len(doc) < MaxNodes
  /\ cur.depth = 2
  /\ doc' = Append(doc, v)
  /\ LET vt == FindText(v.VehicleType, "") IN
       IF cur.skip \/ vt = ""
         THEN data' = data
         ELSE LET lanes == data.map[cur.vdid]
                  rec1 == DSet(lanes.map[cur.lane], VolumeKey(vt),
                               FindText(v.Volume, ""))
                  rec2 == DSet(rec1, VehicleSpeedKey(vt),
                               FindText(v.Speed, ""))
              IN data' = DSet(data, cur.vdid, DSet(lanes, cur.lane, rec2))
  /\ UNCHANGED <<ppc, cur, rows>>
  /\ UNCHANGED pipeVars
  /\ UNCHANGED sideVars

\* row.update({f"{lane_id}_{k}": v for k, v in kv.items()}), from the i-th
\* field of kv on.
RECURSIVE UpdateFields(_, _, _, _)
UpdateFields(row, lane_id, kv, i) ==
  IF i > Len(kv.keys)
    THEN row
    ELSE UpdateFields(DSet(row, ColumnName(lane_id, kv.keys[i]),
                           kv.map[kv.keys[i]]),
                      lane_id, kv, i + 1)

\* for lane_id, kv in lanes.items(): ..., from the j-th lane on.
RECURSIVE UpdateLanes(_, _, _)
UpdateLanes(row, lanes, j) ==
  IF j > Len(lanes.keys)
    THEN row
    ELSE UpdateLanes(UpdateFields(row, lanes.keys[j], lanes.map[lanes.keys[j]], 1),
                     lanes, j + 1)

\* The row of one device.
FlattenRow(vdid, lanes) == UpdateLanes(DSet(EmptyDict, "VDID", vdid), lanes, 1)

\* rows, one per device of data, in the order of data.
Flatten(d) ==
  [i \in 1..Len(d.keys) |-> FlattenRow(d.keys[i], d.map[d.keys[i]])]

\* The document ends: the rows are built and returned.
IterEnd ==
  /\ ppc = "iter"
  /\ ppc' = "done"
  /\ rows' = Flatten(data)
  /\ UNCHANGED <<doc, data, cur>>
  /\ UNCHANGED pipeVars
  /\ UNCHANGED sideVars

\* The parser raises on a malformed document.
IterRaise ==
  /\ ppc = "iter"
  /\ ppc' = "raised"
  /\ UNCHANGED <<doc, data, cur, rows>>
  /\ UNCHANGED pipeVars
  /\ UNCHANGED sideVars

(***************************************************************************)
(* The tasks of download_day and their destinations                        *)
(***************************************************************************)

\* for h in range(24) for m in range(60)
HOURS == 24
MINUTES == 60

Digit(d) == <<"0", "1", "2", "3", "4", "5", "6", "7", "8", "9">>[d + 1]

\* Mutant of Pad2: the number is not padded.
Unpadded(n) == IF n < 10 THEN Digit(n) ELSE Digit(n \div 10) \o Digit(n % 10)

\* f"{n:02d}", for n < 100
Pad2(n) == Digit(n \div 10) \o Digit(n % 10)

\* The name of the destination of the task of hour h and minute m, in the
\* directory base common to all of them: f"VDLive_{h:02d}{m:02d}.xml.gz".
Dest(hm) == "VDLive_" \o Pad2(hm[1]) \o Pad2(hm[2]) \o ".xml.gz"

\* The hours and minutes of the comprehension, and the tasks it has built
\* so far.
Grid == (0..(HOURS - 1)) \X (0..(MINUTES - 1))
Built == {hm \in Grid : hm[1] < th \/ (hm[1] = th /\ hm[2] < tm)}

\* One turn of the comprehension that builds tasks.
TasksAppend ==
  /\ tph = "enumerate"
  /\ th < HOURS
  /\ tm' = IF tm + 1 = MINUTES THEN 0 ELSE tm + 1
  /\ th' = IF tm + 1 = MINUTES THEN th + 1 ELSE th
  /\ UNCHANGED <<tph, writing>>
  /\ UNCHANGED pipeVars
  /\ UNCHANGED parseVars
  /\ UNCHANGED tableVars

\* futs = [ex.submit(_download_one, sess, url, p) for url, p in tasks]
TasksSubmit ==
  /\ tph = "enumerate"
  /\ th = HOURS
  /\ tph' = "submitted"
  /\ UNCHANGED <<th, tm, writing>>
  /\ UNCHANGED pipeVars
  /\ UNCHANGED parseVars
  /\ UNCHANGED tableVars

\* A worker opens the destination of a task for writing.  A clash takes two
\* writers: two of the workers of the pool are followed, each with any of the
\* tasks.
WriteBegin ==
  /\ tph = "submitted"
  /\ Cardinality(writing) < 2
  /\ \E hm \in Grid \ writing : writing' = writing \cup {hm}
  /\ UNCHANGED <<tph, th, tm>>
  /\ UNCHANGED pipeVars
  /\ UNCHANGED parseVars
  /\ UNCHANGED tableVars

\* The worker closes the destination.
WriteEnd(hm) ==
  /\ hm \in writing
  /\ writing' = writing \ {hm}
  /\ UNCHANGED <<tph, th, tm>>
  /\ UNCHANGED pipeVars
  /\ UNCHANGED parseVars
  /\ UNCHANGED tableVars

(***************************************************************************)
(* csv/ and split_by_vdid, table by table                                  *)
(*                                                                         *)
(* A DataFrame is its columns in order and its records, each a function    *)
(* from the columns to cells; a cell is <<text>>, or <<>> for the           *)
(* absent-value marker (NaN).  A file of csv/ is its name, its header and   *)
(* its lines, each a function from the header to the text of the field.    *)
(* The inference of numeric types by read_csv is not modelled: a cell      *)
(* keeps its text.                                                         *)
(***************************************************************************)

\* Bounds of the model of the tables.
MaxTables == 2     \* files of csv/
MaxCsvRows == 3    \* rows of the files of csv/ altogether

NoTable == [cols |-> <<>>, recs |-> <<>>]

Range(q) == {q[i] : i \in DOMAIN q}

\* The rows _parse_xml_lxml returns for the documents of the day: devices
\* with one lane, with or without the lane's Speed.
SplitVdids == {"A", "B", "NA"}
SplitLanes ==
  {DSet(EmptyDict, "L1",
        DSet(DSet(EmptyDict, "Speed", "60"), "Occupancy", "5")),
   DSet(EmptyDict, "L2",
        DSet(DSet(EmptyDict, "Speed", ""), "Occupancy", "5"))}
RowInputs == {FlattenRow(v, l) : v \in SplitVdids, l \in SplitLanes}

\* The rows of one document: of pairwise distinct devices.
DocRows ==
  {q \in UNION {[1..n -> RowInputs] : n \in 0..MaxCsvRows} :
     \A i, j \in 1..Len(q) : i # j => q[i].map["VDID"] # q[j].map["VDID"]}

\* The columns of several lists of columns: their union, each column where
\* it first appears.
RECURSIVE AppendNew(_, _, _)
AppendNew(acc, ks, i) ==
  IF i > Len(ks)
    THEN acc
    ELSE AppendNew(IF ks[i] \in Range(acc) THEN acc ELSE Append(acc, ks[i]),
                   ks, i + 1)
RECURSIVE UnionColumns(_, _, _)
UnionColumns(acc, colss, i) ==
  IF i > Len(colss)
    THEN acc
    ELSE UnionColumns(AppendNew(acc, colss[i], 1), colss, i + 1)

\* pd.DataFrame(rows): a row without a column has NaN there.
DataFrame(rws) ==
  LET cols == UnionColumns(<<>>, [i \in 1..Len(rws) |-> rws[i].keys], 1)
  IN [cols |-> cols,
      recs |-> [i \in 1..Len(rws) |->
                  [c \in Range(cols) |->
                     IF DHas(rws[i], c) THEN <<rws[i].map[c]>> ELSE <<>>]]]

\* name.replace(".xml", ".csv"), for the i-th document of the day.
CsvName(i) == "VDLive_" \o Pad2(0) \o Pad2(i - 1) \o ".csv"

\* df.to_csv(path, index=False): NaN is written as the empty field.
ToCsv(name, df) ==
  [name |-> name,
   cols |-> df.cols,
   lines |-> [i \in 1..Len(df.recs) |->
                [c \in Range(df.cols) |->
                   IF df.recs[i][c] = <<>> THEN "" ELSE df.recs[i][c][1]]]]

\* The texts pd.read_csv reads as NaN (its default na_values).
NA_VALUES ==
  {"", "#N/A", "#N/A N/A", "#NA", "-1.#IND", "-1.#QNAN", "-NaN", "-nan",
   "1.#IND", "1.#QNAN", "<NA>", "N/A", "NA", "NULL", "NaN", "n/a", "nan",
   "null"}

\* pd.read_csv(p)
ReadCsv(file) ==
  [cols |-> file.cols,
   recs |-> [i \in 1..Len(file.lines) |->
               [c \in Range(file.cols) |->
                  IF file.lines[i][c] \in NA_VALUES
                    THEN <<>>
                    ELSE <<file.lines[i][c]>>]]]

\* .assign(file_name=p.name)
Assign(df, name) ==
  [cols |-> IF "file_name" \in Range(df.cols)
              THEN df.cols
              ELSE Append(df.cols, "file_name"),
   recs |-> [i \in 1..Len(df.recs) |-> ("file_name" :> <<name>>) @@ df.recs[i]]]

\* Mutant of ConcatColumns: the columns common to all frames (join="inner").
ConcatColumnsInner(dfs) ==
  SelectSeq(dfs[1].cols,
            LAMBDA c : \A i \in 1..Len(dfs) : c \in Range(dfs[i].cols))

\* The columns of pd.concat(dfs): those of all frames (join="outer").
ConcatColumns(dfs) ==
  UnionColumns(<<>>, [i \in 1..Len(dfs) |-> dfs[i].cols], 1)

RECURSIVE ConcatRecs(_, _)
ConcatRecs(dfs, i) ==
  IF i > Len(dfs) THEN <<>> ELSE dfs[i].recs \o ConcatRecs(dfs, i + 1)

\* pd.concat(dfs, ignore_index=True): the records of the frames in order,
\* NaN where a frame has not the column.
Concat(dfs) ==
  LET cols == ConcatColumns(dfs)
      all == ConcatRecs(dfs, 1)
  IN [cols |-> cols,
      recs |-> [i \in 1..Len(all) |->
                  [c \in Range(cols) |->
                     IF c \in DOMAIN all[i] THEN all[i][c] ELSE <<>>]]]

\* The keys of combined.groupby("VDID"): NaN is no key (dropna=True).
GroupKeys(df) ==
  {df.recs[i]["VDID"][1] :
     i \in {j \in 1..Len(df.recs) : df.recs[j]["VDID"] # <<>>}}

\* The group of a key: its records, in the order of the frame.
Group(df, k) ==
  [cols |-> df.cols,
   recs |-> SelectSeq(df.recs, LAMBDA rec : rec["VDID"] = <<k>>)]

\* f"{vdid}.csv"
PartName(vdid) == vdid \o ".csv"

RECURSIVE RowsIn(_, _)
RowsIn(files, i) ==
  IF i > Len(files) THEN 0 ELSE Len(files[i].lines) + RowsIn(files, i + 1)

\* One turn of the as_completed loop of xml_to_csv: the rows of a document
\* are written to csv/.
CsvWrite(rws) ==
  /\ spc = "csv"
  /\ Len(tables) < MaxTables
  /\ RowsIn(tables, 1) + Len(rws) <= MaxCsvRows
  /\ tables' = Append(tables, ToCsv(CsvName(Len(tables) + 1), DataFrame(rws)))
  /\ UNCHANGED <<spc, combinedT, parts>>
  /\ UNCHANGED pipeVars
  /\ UNCHANGED parseVars
  /\ UNCHANGED taskVars

\* split_by_vdid up to groupby: the files of csv/ are read, in the order of
\* glob, and concatenated.  pd.concat raises when there is no file, and
\* pd.read_csv on a file without columns.
SplitCombine ==
  /\ spc = "csv"
  /\ IF Len(tables) = 0 \/ \E i \in 1..Len(tables) : Len(tables[i].lines) = 0
       THEN /\ spc' = "raised"
            /\ combinedT' = combinedT
       ELSE /\ spc' = "combined"
            /\ \E order \in {f \in [1..Len(tables) -> 1..Len(tables)] :
                                \A i, j \in 1..Len(tables) :
                                  i # j => f[i] # f[j]} :
                 combinedT' =
                   Concat([i \in 1..Len(tables) |->
                             Assign(ReadCsv(tables[order[i]]),
                                    tables[order[i]].name)])
  /\ UNCHANGED <<tables, parts>>
  /\ UNCHANGED pipeVars
  /\ UNCHANGED parseVars
  /\ UNCHANGED taskVars

\* The rest of split_by_vdid: every group is written to its file of VDID/.
SplitWrite ==
  /\ spc = "combined"
  /\ spc' = "split"
  /\ parts' =
       [n \in {PartName(k) : k \in GroupKeys(combinedT)} |->
          Group(combinedT,
                CHOOSE k \in GroupKeys(combinedT) : PartName(k) = n)]
  /\ UNCHANGED <<tables, combinedT>>
  /\ UNCHANGED pipeVars
  /\ UNCHANGED parseVars
  /\ UNCHANGED taskVars

InitCommon ==
  /\ raisedIn = "none"
  /\ dl = [r \in Res |-> Queued]
  /\ run = 0
  /\ fetched = {}
  /\ atStart = comp
  /\ prevRes = [r \in Res |-> "none"]
  /\ gzTodo = {}
  /\ xml = [r \in Res |-> "absent"]
  /\ xmlAtStart = xml
  /\ dec = [r \in Res |-> "none"]
  /\ parse = [r \in Res |-> "none"]
  /\ csv = [r \in Res |-> "absent"]
  /\ combined = {}
  /\ vdidOut = {}
  /\ zipped = FALSE
  /\ stages = <<>>

ParserIdle ==
  /\ ppc = "idle"
  /\ doc = <<>>
  /\ data = EmptyDict
  /\ cur = NoCursor
  /\ rows = <<>>

TasksIdle ==
  /\ tph = "idle"
  /\ th = 0
  /\ tm = 0
  /\ writing = {}

TablesIdle ==
  /\ spc = "idle"
  /\ tables = <<>>
  /\ combinedT = NoTable
  /\ parts = <<>>

SideIdle == TasksIdle /\ TablesIdle

InitDL ==
  /\ pc = "start"
  /\ comp \in [Res -> {NoFile} \cup {File(s) : s \in Sizes}]
  /\ days = 1
  /\ start_date = <<2, 0, 2, 4, 0, 3, 0, 1>>
  /\ dt = Strptime(start_date)
  /\ iter = 0
  /\ invoked = <<>>
  /\ opts = [keep_gz |-> TRUE, keep_xml |-> TRUE, keep_csv |-> TRUE,
             zip_and_delete |-> FALSE]
  /\ InitCommon
  /\ ParserIdle
  /\ SideIdle

NextDL ==
  \/ DownloadDayInvoke
  \/ \E r \in Res : DownloadOneBegin(r)
  \/ \E r \in Res : DownloadOneEnd(r)
  \/ \E r \in Res : DownloadDayCollect(r)
  \/ DownloadDayReturn

SpecDL == InitDL /\ [][NextDL]_vars

\* One call of decompress_day on a day directory download_day has returned
\* from, whatever compressed/ and decompressed/ hold: a run before this one
\* may have left whole documents there, or what a failed copy had written.
InitDec ==
  /\ pc = "downloaded"
  /\ comp \in [Res -> {NoFile} \cup {File(s) : s \in Sizes}]
  /\ xml \in [Res -> {"absent", "whole", "partial"}]
  /\ xmlAtStart = xml
  /\ dec = [r \in Res |-> "none"]
  /\ days = 1
  /\ start_date = <<2, 0, 2, 4, 0, 3, 0, 1>>
  /\ dt = Strptime(start_date)
  /\ iter = 1
  /\ invoked = <<start_date>>
  /\ opts = [keep_gz |-> TRUE, keep_xml |-> TRUE, keep_csv |-> TRUE,
             zip_and_delete |-> FALSE]
  /\ raisedIn = "none"
  /\ dl = [r \in Res |-> Queued]
  /\ run = 1
  /\ fetched = {}
  /\ atStart = comp
  /\ prevRes = [r \in Res |-> "none"]
  /\ gzTodo = {}
  /\ parse = [r \in Res |-> "none"]
  /\ csv = [r \in Res |-> "absent"]
  /\ combined = {}
  /\ vdidOut = {}
  /\ zipped = FALSE
  /\ stages = <<"download">>
  /\ ParserIdle
  /\ SideIdle

NextDec ==
  \/ DecompressDayBegin
  \/ \E r \in Res : DecompressOne(r)
  \/ DecompressDayReturn

SpecDec == InitDec /\ [][NextDec]_vars

\* The program started with --date and --days on days whose directories do
\* not exist yet.
Init ==
  /\ pc = "batch"
  /\ comp = [r \in Res |-> NoFile]
  /\ days \in 1..MaxDays
  /\ start_date \in StartDates
  /\ dt = Strptime(start_date)
  /\ iter = 0
  /\ invoked = <<>>
  /\ opts \in [keep_gz : BOOLEAN, keep_xml : BOOLEAN, keep_csv : BOOLEAN,
               zip_and_delete : BOOLEAN]
  /\ InitCommon
  /\ ParserIdle
  /\ SideIdle

Next ==
  \/ BatchCallProcessDay
  \/ \E r \in Res : DownloadOneBegin(r)
  \/ \E r \in Res : DownloadOneEnd(r)
  \/ \E r \in Res : DownloadDayCollect(r)
  \/ DownloadDayReturn
  \/ DecompressDayBegin
  \/ \E r \in Res : DecompressOne(r)
  \/ DecompressDayReturn
  \/ XmlToCsvBegin
  \/ \E r \in Res : ParseTaskBegin(r)
  \/ \E r \in Res : ParseTaskEnd(r)
  \/ \E r \in Res : XmlToCsvCollect(r)
  \/ XmlToCsvReturn
  \/ SplitByVdid
  \/ Cleanup
  \/ ZipDay
  \/ BatchStep
  \/ BatchReturn

Spec == Init /\ [][Next]_vars

\* One call of _parse_xml_lxml on any document of at most MaxNodes elements.
InitParse ==
  /\ pc = "parse"
  /\ comp = [r \in Res |-> NoFile]
  /\ days = 1
  /\ start_date = <<2, 0, 2, 4, 0, 3, 0, 1>>
  /\ dt = Strptime(start_date)
  /\ iter = 0
  /\ invoked = <<>>
  /\ opts = [keep_gz |-> TRUE, keep_xml |-> TRUE, keep_csv |-> TRUE,
             zip_and_delete |-> FALSE]
  /\ InitCommon
  /\ ppc = "iter"
  /\ doc = <<>>
  /\ data = EmptyDict
  /\ cur = NoCursor
  /\ rows = <<>>
  /\ SideIdle

NextParse ==
  \/ \E e \in VDLiveElems : IterVDLive(e)
  \/ \E l \in LaneElems : IterLane(l)
  \/ \E v \in VehicleElems : IterVehicle(v)
  \/ IterEnd
  \/ IterRaise

SpecParse == InitParse /\ [][NextParse]_vars

\* A day on its own, outside batch, with the options that keep everything.
SingleDay ==
  /\ comp = [r \in Res |-> NoFile]
  /\ days = 1
  /\ start_date = <<2, 0, 2, 4, 0, 3, 0, 1>>
  /\ dt = Strptime(start_date)
  /\ iter = 0
  /\ invoked = <<>>
  /\ opts = [keep_gz |-> TRUE, keep_xml |-> TRUE, keep_csv |-> TRUE,
             zip_and_delete |-> FALSE]

\* download_day builds the tasks of a day and its workers write them.
InitTasks ==
  /\ pc = "tasks"
  /\ SingleDay
  /\ InitCommon
  /\ ppc = "idle"
  /\ doc = <<>>
  /\ data = EmptyDict
  /\ cur = NoCursor
  /\ rows = <<>>
  /\ TablesIdle
  /\ tph = "enumerate"
  /\ th = 0
  /\ tm = 0
  /\ writing = {}

NextTasks ==
  \/ TasksAppend
  \/ TasksSubmit
  \/ WriteBegin
  \/ \E hm \in writing : WriteEnd(hm)

SpecTasks == InitTasks /\ [][NextTasks]_vars

\* xml_to_csv writes the tables of a day to an empty csv/ and split_by_vdid
\* combines and splits them.
InitSplit ==
  /\ pc = "tables"
  /\ SingleDay
  /\ InitCommon
  /\ ppc = "idle"
  /\ doc = <<>>
  /\ data = EmptyDict
  /\ cur = NoCursor
  /\ rows = <<>>
  /\ TasksIdle
  /\ spc = "csv"
  /\ tables = <<>>
  /\ combinedT = NoTable
  /\ parts = <<>>

NextSplit ==
  \/ \E rws \in DocRows : CsvWrite(rws)
  \/ SplitCombine
  \/ SplitWrite

SpecSplit == InitSplit /\ [][NextSplit]_vars


(***************************************************************************)
(* Claims about the Fetch Scheduler, checked under SpecDL                  *)
(***************************************************************************)

\* C3 as stated: once download_day has completed, every destination is
\* absent or has size >= MIN_FILE_SIZE, whatever the directory held before.
C3_NoUndersizedLeft ==
  pc = "downloaded" =>
    \A r \in Res : ~comp[r].ex \/ comp[r].size >= MIN_FILE_SIZE

\* C3 amended: once download_day has completed, every destination is absent,
\* has size >= MIN_FILE_SIZE, or existed already when download_day began.
C3_NoUndersizedLeftUnlessPreexisting ==
  pc = "downloaded" =>
    \A r \in Res :
      ~comp[r].ex \/ comp[r].size >= MIN_FILE_SIZE \/ atStart[r].ex

\* C3 witness: an undersized retrieval was deleted while an undersized file
\* that was there before is still there.
C3_Witness ==
  /\ pc = "downloaded"
  /\ \E r \in Res : dl[r].out = "short" /\ ~comp[r].ex
  /\ \E r \in Res : atStart[r].ex /\ comp[r].ex /\ comp[r].size < MIN_FILE_SIZE

\* C4 as stated: a second invocation of download_day for the same date
\* performs no network retrieval.
C4_SecondRunFetchesNothing == run >= 2 => fetched = {}

\* C4 amended: a second invocation retrieves exactly the resources the
\* previous invocation reported failed, and none it reported satisfied.
C4_SecondRunFetchesOnlyFailed ==
  run >= 2 =>
    /\ fetched \subseteq {r \in Res : prevRes[r] = "false"}
    /\ pc = "downloaded" => fetched = {r \in Res : prevRes[r] = "false"}

\* C4 witness: a second invocation has completed, having retrieved some
\* resources again and skipped others.
C4_Witness ==
  /\ run = 2
  /\ pc = "downloaded"
  /\ fetched # {}
  /\ \E r \in Res : prevRes[r] = "true" /\ r \notin fetched

\* C5: a retrieval error or an undersized artifact leaves the destination
\* absent and the resource reported False; no worker raises, every task is
\* attempted and download_day returns normally.
C5_FetchFailuresIsolated ==
  /\ raisedIn # "download_day"
  /\ pc # "dl_unwind"
  /\ \A r \in Res :
       /\ dl[r].res # "exc"
       /\ (dl[r].st \in {"done", "collected"} /\ dl[r].out \in {"error", "short"})
            => (~comp[r].ex /\ dl[r].res = "false")
  /\ pc = "downloaded" =>
       \A r \in Res : dl[r].st = "collected" /\ dl[r].res \in {"true", "false"}

\* C5 witness: download_day has returned after one retrieval raised and
\* another was undersized.
C5_Witness ==
  /\ pc = "downloaded"
  /\ \E r \in Res : dl[r].out = "error"
  /\ \E r \in Res : dl[r].out = "short"

\* C6: a destination that exists when _download_one is called for it is
\* left as it is, is not fetched, and is reported satisfied.
C6_ExistingLeftUnchanged ==
  pc \in {"download", "downloaded"} =>
    \A r \in Res :
      atStart[r].ex =>
        /\ comp[r] = atStart[r]
        /\ r \notin fetched
        /\ dl[r].st \in {"done", "collected"} => dl[r].res = "true"

\* C6 witness: an undersized file that was there before was reported
\* satisfied and is still there.
C6_Witness ==
  /\ pc = "downloaded"
  /\ \E r \in Res :
       /\ atStart[r].ex /\ atStart[r].size < MIN_FILE_SIZE
       /\ dl[r].res = "true" /\ comp[r] = atStart[r]

(***************************************************************************)
(* Claims about process_day and batch, checked under Spec                  *)
(***************************************************************************)

\* A resource whose artifact was retrieved, decompressed whole and parsed
\* into rows.
Sound(r) ==
  /\ dl[r].res = "true"
  /\ xml[r] = "whole"
  /\ parse[r] = "rows" \/ (parse[r] = "collected" /\ csv[r] = "rows")

\* xml_to_csv has ended for the current day, by return or by exception, and
\* csv/ is as it left it.
XmlToCsvEnded == pc = "csv_done" \/ (pc = "raised" /\ raisedIn = "xml_to_csv")

\* C1 as stated: a parse error on one document is isolated: xml_to_csv does
\* not raise and every other document of the day has its table in csv/.
C1_ParseErrorIsolated ==
  /\ raisedIn # "xml_to_csv"
  /\ XmlToCsvEnded =>
       \A r \in Res : parse[r] \in {"rows", "empty"} => csv[r] # "absent"

\* C2 as stated: when batch has ended, by return or by exception,
\* process_day has been called for every one of its days.
C2_EveryDayAttempted == pc \in {"done", "raised"} => Len(invoked) = days

\* C7 as stated: on a fresh day, when the stages have ended, every resource
\* whose fetch did not fail (and whose artifact is sound) has a document, a
\* table and its table in the combined table; a resource whose fetch failed
\* has no document.
C7_FetchFailuresDoNotSpread ==
  pc \in {"split_done", "raised"} =>
    \A r \in Res :
      /\ Sound(r) => (csv[r] = "rows" /\ r \in combined)
      /\ dl[r].res = "false" => (xml[r] = "absent" /\ parse[r] = "none")

\* C8 as stated: process_day does not raise when the only failures are
\* fetch failures, however many of them.
C8_FetchFailuresNeverRaise ==
  (\A r \in Res : dl[r].res = "false" \/ Sound(r)) => raisedIn = "none"

StageOrder == <<"download", "decompress", "xml", "split", "cleanup", "zip">>

\* C9: the stages of a day begin in the order fetch, decompress, transform,
\* split, cleanup, zip; download_day has returned only with every fetch task
\* ended, xml_to_csv has ended only with every parse ended, and cleanup
\* begins only after split_by_vdid has returned.
C9_StagesInSequence ==
  /\ Len(stages) <= Len(StageOrder)
  /\ \A i \in 1..Len(stages) : stages[i] = StageOrder[i]
  /\ (pc = "downloaded" \/ Len(stages) >= 2) =>
       \A r \in Res : dl[r].st \in {"done", "collected"}
  /\ pc \in {"download", "dl_unwind"} => stages = <<"download">>
  /\ (XmlToCsvEnded \/ Len(stages) >= 4) =>
       \A r \in Res : parse[r] \notin {"queued", "running"}
  /\ pc \in {"xml", "xml_unwind"} => Len(stages) = 3
  /\ Len(stages) >= 5 => (combined # {} /\ raisedIn = "none")

\* C9 witness: a day went through all six stages although a fetch failed.
C9_Witness ==
  /\ pc = "day_end"
  /\ stages = StageOrder
  /\ \E r \in Res : dl[r].res = "false"
  /\ \E r \in Res : dl[r].res = "true"

(***************************************************************************)
(* Claims about the Document Transformer, checked under SpecParse          *)
(***************************************************************************)

\* The device identifiers of the snapshots of the document that have one.
DocVdids ==
  {FindText(doc[i].VDID, "") :
     i \in {j \in 1..Len(doc) : doc[j].tag = "VDLive"}} \ {""}

\* C10: a snapshot whose VDID is empty or absent contributes nothing: no row
\* has an empty VDID, no device is recorded under the empty identifier, and
\* the rows are those of the snapshots that have an identifier.
C10_NoBlankVdidRow ==
  /\ ~DHas(data, "")
  /\ \A i \in 1..Len(rows) : rows[i].map["VDID"] # ""
  /\ ppc = "done" => {rows[i].map["VDID"] : i \in 1..Len(rows)} = DocVdids

\* C10 witness: a document with a snapshot without identifier, which has a
\* lane, and a snapshot with one has been turned into rows.
C10_Witness ==
  /\ ppc = "done"
  /\ Len(rows) = 1
  /\ \E i \in 1..Len(doc) - 1 :
       /\ doc[i].tag = "VDLive" /\ doc[i].VDID \in {<<>>, <<"">>}
       /\ doc[i + 1].tag = "Lane"

(***************************************************************************)
(* Claims about the Decompressor                                           *)
(***************************************************************************)

\* C13 (under SpecDec): an error while one artifact is decompressed does not
\* end the stage: decompress_day never raises, and when it has returned
\* every artifact of compressed/ has been visited, one whose document
\* existed has been skipped and its document is as it was, and one whose
\* document did not exist and whose copy did not fail has its whole document.
C13_DecompressErrorIsolated ==
  /\ raisedIn # "decompress_day"
  /\ pc = "decompressed" =>
       \A r \in Res : comp[r].ex =>
         /\ dec[r] # "none"
         /\ xmlAtStart[r] # "absent" =>
              (dec[r] = "skipped" /\ xml[r] = xmlAtStart[r])
         /\ (xmlAtStart[r] = "absent" /\ dec[r] # "error") =>
              (dec[r] = "ok" /\ xml[r] = "whole")

\* C13 witness: decompress_day has returned after the copy of one artifact
\* failed and that of another gave its document.
C13_Witness ==
  /\ pc = "decompressed"
  /\ \E r1, r2 \in Res : dec[r1] = "error" /\ dec[r2] = "ok"

\* C18 as stated (under Spec): when decompress_day has returned, an artifact
\* whose decompression failed has no file in decompressed/.
C18_FailedCopyLeavesNothing ==
  pc = "decompressed" =>
    \A r \in Res : dec[r] = "error" => xml[r] = "absent"

(***************************************************************************)
(* Claims about the completion order of the parse workers, under Spec      *)
(***************************************************************************)

\* The documents of decompressed/ whose parse did not raise, as known once
\* every parse has ended: a parse collected without a table had raised.
Parsable ==
  {r \in Res : /\ xml[r] # "absent"
               /\ parse[r] # "exc"
               /\ ~(parse[r] = "collected" /\ csv[r] = "absent")}

\* C19 as stated: the tables of csv/ when xml_to_csv ends are the same for
\* every completion order of the parses.  In the order where the parses that
\* raise are collected last every parsable document has its table, so the
\* tables are the same for every order only if they are those of the
\* parsable documents whenever xml_to_csv has ended.
C19_TablesSameForEveryOrder == XmlToCsvEnded => Tables = Parsable

(***************************************************************************)
(* Claims about the dates of batch, checked under Spec                     *)
(***************************************************************************)

\* The text of the calendar day before the day of text s.
DayBefore(s) ==
  LET y == s[1] * 1000 + s[2] * 100 + s[3] * 10 + s[4]
      m == s[5] * 10 + s[6]
      d == s[7] * 10 + s[8]
      py == IF m = 1 /\ d = 1 THEN y - 1 ELSE y
      pm == IF d > 1 THEN m ELSE IF m = 1 THEN 12 ELSE m - 1
      pd == IF d > 1 THEN d - 1
            ELSE IF pm = 2 THEN (IF IsLeap(py) THEN 29 ELSE 28)
            ELSE IF pm \in {4, 6, 9, 11} THEN 30 ELSE 31
  IN <<py \div 1000, (py \div 100) % 10, (py \div 10) % 10, py % 10,
       pm \div 10, pm % 10, pd \div 10, pd % 10>>

\* C14: process_day is called once per turn of the loop, first with
\* start_date and then each time with the calendar day before the date of
\* the call before, so that no date is skipped or repeated; when batch has
\* returned, no day having failed, it has been called days times.
C14_DatesDescendFromStart ==
  /\ Len(invoked) = iter
  /\ iter <= days
  /\ Len(invoked) >= 1 => invoked[1] = start_date
  /\ \A i \in 1..Len(invoked) - 1 : invoked[i + 1] = DayBefore(invoked[i])
  /\ pc = "done" => Len(invoked) = days

\* C14 witness: batch has returned after at least two days, the second of
\* which is in the month before that of the first.
C14_Witness ==
  /\ pc = "done"
  /\ Len(invoked) >= 2
  /\ <<invoked[2][5], invoked[2][6]>> # <<invoked[1][5], invoked[1][6]>>

(***************************************************************************)
(* Claims about the records and rows of the Document Transformer, checked  *)
(* under SpecParse                                                         *)
(***************************************************************************)

\* The snapshot and the lane an element of the document lies in: the last
\* VDLive, the last Lane, before it.
SnapOf(i) ==
  CHOOSE j \in 1..(i - 1) :
    doc[j].tag = "VDLive" /\ \A k \in (j + 1)..(i - 1) : doc[k].tag # "VDLive"
LaneOf(i) ==
  CHOOSE j \in 1..(i - 1) :
    doc[j].tag = "Lane" /\ \A k \in (j + 1)..(i - 1) : doc[k].tag # "Lane"

\* The lanes of the document that belong to a snapshot with an identifier,
\* and the device and the Lane Record each is recorded under.
LaneNodes ==
  {i \in 1..Len(doc) :
     doc[i].tag = "Lane" /\ FindText(doc[SnapOf(i)].VDID, "") # ""}
LaneSlot(i) ==
  <<FindText(doc[SnapOf(i)].VDID, ""), "L" \o FindText(doc[i].LaneID, "")>>

\* The vehicle elements with a classification, in such lanes.
ClassNodes ==
  {i \in 1..Len(doc) :
     /\ doc[i].tag = "Vehicle"
     /\ FindText(doc[i].VehicleType, "") # ""
     /\ LaneOf(i) \in LaneNodes}
ClassSlot(i) == <<LaneSlot(LaneOf(i)), FindText(doc[i].VehicleType, "")>>

\* The last element of a set of elements of the document.
LastOf(S) == CHOOSE i \in S : \A j \in S : j <= i

\* C15: the classifications of a lane accumulate in its Lane Record: for
\* every vehicle element with a classification the record of its lane holds
\* Speed and Occupancy and the classification's Volume and Vehicle_Speed
\* fields, with the values of the last element of that classification in
\* that lane, whatever other classifications came after it.
C15_ClassFieldsAccumulate ==
  \A i \in ClassNodes :
    LET slot == LaneSlot(LaneOf(i))
        vt == FindText(doc[i].VehicleType, "")
        last == LastOf({j \in ClassNodes : ClassSlot(j) = ClassSlot(i)})
    IN /\ DHas(data, slot[1])
       /\ DHas(data.map[slot[1]], slot[2])
       /\ LET rec == data.map[slot[1]].map[slot[2]]
          IN /\ DHas(rec, "Speed")
             /\ DHas(rec, "Occupancy")
             /\ DHas(rec, vt \o "_Volume")
             /\ DHas(rec, vt \o "_Vehicle_Speed")
             /\ rec.map[vt \o "_Volume"] = FindText(doc[last].Volume, "")
             /\ rec.map[vt \o "_Vehicle_Speed"] = FindText(doc[last].Speed, "")

\* C15 witness: a lane received a vehicle of one classification and then one
\* of another, with another volume.
C15_Witness ==
  \E i, j \in ClassNodes :
    /\ i < j
    /\ LaneOf(i) = LaneOf(j)
    /\ doc[i].VehicleType # doc[j].VehicleType
    /\ doc[i].Volume # doc[j].Volume

\* The Lane Record a lane of the document is recorded in holds the Speed and
\* the Occupancy of the last lane element of that device and lane identifier,
\* empty when that element has none.
LaneRecordsMerged ==
  \A i \in LaneNodes :
    LET slot == LaneSlot(i)
        last == LastOf({j \in LaneNodes : LaneSlot(j) = slot})
    IN /\ DHas(data, slot[1])
       /\ DHas(data.map[slot[1]], slot[2])
       /\ LET rec == data.map[slot[1]].map[slot[2]]
          IN /\ DHas(rec, "Speed")
             /\ DHas(rec, "Occupancy")
             /\ rec.map["Speed"] = FindText(doc[last].Speed, "")
             /\ rec.map["Occupancy"] = FindText(doc[last].Occupancy, "")

\* C20: the rows have pairwise distinct VDID values, one row per device
\* identifier of the document: the snapshots of one identifier are merged
\* into one Device Record, which holds the lanes of all of them, a later
\* lane element overwriting the Speed and Occupancy of an earlier one of the
\* same lane, and the row of the device has the columns of all its lanes.
C20_OneRowPerDevice ==
  /\ \A i, j \in 1..Len(rows) :
       i # j => rows[i].map["VDID"] # rows[j].map["VDID"]
  /\ Len(data.keys) = Cardinality(DocVdids)
  /\ LaneRecordsMerged
  /\ ppc = "done" =>
       /\ Len(rows) = Cardinality(DocVdids)
       /\ \A i \in LaneNodes :
            \E r \in 1..Len(rows) :
              /\ rows[r].map["VDID"] = LaneSlot(i)[1]
              /\ DHas(rows[r], LaneSlot(i)[2] \o "_Speed")
              /\ DHas(rows[r], LaneSlot(i)[2] \o "_Occupancy")

\* C20 witness: two snapshots of one device, each with a lane of its own,
\* gave one row.
C20_Witness ==
  /\ ppc = "done"
  /\ Len(rows) = 1
  /\ \E i, j \in LaneNodes :
       /\ SnapOf(i) # SnapOf(j)
       /\ LaneSlot(i)[1] = LaneSlot(j)[1]
       /\ LaneSlot(i)[2] # LaneSlot(j)[2]

\* The fields of a Device Record, as <<j, f>> for the f-th field of its j-th
\* lane, with the name of the column and the value of each.
FieldsOf(lanes) ==
  UNION {{<<j, f>> : f \in 1..Len(lanes.map[lanes.keys[j]].keys)} :
           j \in 1..Len(lanes.keys)}
NameOf(lanes, p) ==
  lanes.keys[p[1]] \o "_" \o lanes.map[lanes.keys[p[1]]].keys[p[2]]
ValueOf(lanes, p) ==
  lanes.map[lanes.keys[p[1]]].map[lanes.map[lanes.keys[p[1]]].keys[p[2]]]

\* C17: flattening gives one row per Device Record, whose columns are VDID
\* and, for every lane L and field f of the record, a column L_f that
\* carries the value of the field, and no other column; every Lane Record
\* has Speed and Occupancy, empty when the lane element has none, so every
\* lane gives these two columns.
C17_RowOfADeviceRecord ==
  /\ LaneRecordsMerged
  /\ ppc = "done" =>
       /\ Len(rows) = Len(data.keys)
       /\ \A i \in 1..Len(rows) :
            LET lanes == data.map[data.keys[i]]
            IN /\ rows[i].map["VDID"] = data.keys[i]
               /\ DOMAIN rows[i].map =
                    {"VDID"} \cup {NameOf(lanes, p) : p \in FieldsOf(lanes)}
               /\ \A p \in FieldsOf(lanes) :
                    rows[i].map[NameOf(lanes, p)] = ValueOf(lanes, p)
               /\ \A j \in 1..Len(lanes.keys) :
                    /\ DHas(rows[i], lanes.keys[j] \o "_Speed")
                    /\ DHas(rows[i], lanes.keys[j] \o "_Occupancy")

\* C17 witness: a device with two lanes, one of them without Speed in the
\* document and with a vehicle of some classification, was flattened into a
\* row where that Speed is empty.
C17_Witness ==
  /\ ppc = "done"
  /\ \E i \in 1..Len(rows) :
       /\ Len(data.map[data.keys[i]].keys) = 2
       /\ \E n \in ClassNodes :
            /\ LaneSlot(LaneOf(n))[1] = data.keys[i]
            /\ doc[LaneOf(n)].Speed = <<>>
            /\ rows[i].map[LaneSlot(LaneOf(n))[2] \o "_Speed"] = ""

(***************************************************************************)
(* Claim about the tasks of download_day, checked under SpecTasks          *)
(***************************************************************************)

\* C12: the tasks of a day are 1440, one for every hour 0..23 and minute
\* 0..59, their destinations are pairwise distinct, and so no two workers
\* ever write the same destination at the same time.
C12_DestinationsDistinct ==
  /\ writing = {} =>
       Cardinality({Dest(hm) : hm \in Built}) = Cardinality(Built)
  /\ (tph = "submitted" /\ writing = {}) =>
       (Built = (0..23) \X (0..59) /\ Cardinality(Built) = 1440)
  /\ \A a, b \in writing : a # b => Dest(a) # Dest(b)

\* C12 witness: two workers write at the same time the destinations of
\* hour 1, minute 11 and of hour 11, minute 1.
C12_Witness ==
  /\ tph = "submitted"
  /\ writing = {<<1, 11>>, <<11, 1>>}

(***************************************************************************)
(* Claims about the Table Combiner and the Partition Writer, checked under *)
(* SpecSplit                                                               *)
(***************************************************************************)

\* The per-document tables, as split_by_vdid loads them.
Loaded == [i \in 1..Len(tables) |-> ReadCsv(tables[i])]

\* C16: the columns of the Combined Table are those of all per-document
\* tables and file_name; every row of every per-document table is in it,
\* with the name of its table in file_name and the absent-value marker in
\* the columns its table has not; and it has no other row.
C16_CombinedIsUnion ==
  spc \in {"combined", "split"} =>
    /\ Range(combinedT.cols) =
         UNION {Range(Loaded[i].cols) : i \in 1..Len(tables)} \cup {"file_name"}
    /\ Len(combinedT.recs) =
         Cardinality({p \in (1..Len(tables)) \X (1..MaxCsvRows) :
                        p[2] <= Len(Loaded[p[1]].recs)})
    /\ \A i \in 1..Len(tables) : \A j \in 1..Len(Loaded[i].recs) :
         \E k \in 1..Len(combinedT.recs) :
           /\ DOMAIN combinedT.recs[k] = Range(combinedT.cols)
           /\ combinedT.recs[k]["file_name"] = <<tables[i].name>>
           /\ \A c \in Range(combinedT.cols) \ {"file_name"} :
                combinedT.recs[k][c] =
                  IF c \in Range(Loaded[i].cols)
                    THEN Loaded[i].recs[j][c]
                    ELSE <<>>

\* C16 witness: two tables with different columns were combined.
C16_Witness ==
  /\ spc = "combined"
  /\ Len(tables) = 2
  /\ Range(tables[1].cols) # Range(tables[2].cols)
  /\ \E k \in 1..Len(combinedT.recs) : combinedT.recs[k]["L1_Speed"] = <<>>

\* C11 as stated: VDID/ has one partition per distinct non-empty VDID of the
\* Combined Table, and every row of the Combined Table is in the partition
\* of its VDID, once, and in no other; the partitions have no other row.
C11_EveryRowInItsPartition ==
  spc = "split" =>
    /\ DOMAIN parts =
         {k[1] \o ".csv" :
            k \in {combinedT.recs[i]["VDID"] : i \in 1..Len(combinedT.recs)}
                    \ {<<>>}}
    /\ \A n \in DOMAIN parts : \A j \in 1..Len(parts[n].recs) :
         parts[n].recs[j] \in Range(combinedT.recs)
    /\ \A i \in 1..Len(combinedT.recs) :
         LET rec == combinedT.recs[i]
             At(n) == {j \in 1..Len(parts[n].recs) : parts[n].recs[j] = rec}
         IN \E n \in DOMAIN parts :
              /\ Cardinality(At(n)) = 1
              /\ rec["VDID"] # <<>>
              /\ n = rec["VDID"][1] \o ".csv"
              /\ \A o \in DOMAIN parts \ {n} : At(o) = {}

=============================================================================
